---- MODULE Spec2Model ----
(***************************************************************************)
(* The Express proxy of src/src/server.ts (the final version of the        *)
(* server, lines 207-589): the CORS middleware, express.json, the request  *)
(* logging middleware, the routes /health, /api/chat and /api/models, the  *)
(* 404 handler, the error handler, and the log sink writeLog.              *)
(*                                                                         *)
(* Node runs each callback to completion, so one action is one callback:   *)
(* a request's arrival (CORS middleware, until the body is read), the      *)
(* chain after the body was read (express.json, logging middleware, route  *)
(* handler up to its await or its response), the continuation after the    *)
(* adapter call settled, and the response's 'finish' event.                *)
(***************************************************************************)
EXTENDS Integers, Sequences, FiniteSets, TLC

VARIABLES
  now,      \* the process-local clock (new Date(), Date.now())
  logFile,  \* the date in the log file's name, computed once at module load
  files,    \* the log directory: date in the file name -> lines of that file
  reqs,     \* the requests the server has in hand, by connection
  process,  \* the Node process: whether it runs, and the promise rejections
            \* nothing handled that it was told of
  \* the chat UI of src/client/src/App.tsx
  messages, \* useState<Message[]>: the turns, oldest first
  input,    \* useState(''): the input buffer
  loading,  \* useState(false)
  error,    \* useState<string | null>(null)
  model,    \* useState('llama3.1'): the selected model
  posts,    \* the POSTs to /api/chat the UI issued, in order
  pending,  \* the indexes in posts of the fetches that have not settled
  event     \* the last event the UI handled, and what settled last

server == <<now, logFile, files, reqs, process>>
ui == <<messages, input, loading, error, model, posts, pending, event>>
vars == <<server, ui>>

----------------------------------------------------------------------------
(* Bounds of the model *)

NumReq == 2      \* connections the model follows
MaxModels == 2   \* model descriptors in one answer of ollama.list
MaxNow == 2      \* the clock stops ticking here
DayLen == 1      \* clock ticks per calendar day
MaxSends == 2    \* POSTs one session of the chat UI issues
MaxRejections == 2  \* unhandled promise rejections in one run of the process

Conns == 1..NumReq
Times == 0..MaxNow

----------------------------------------------------------------------------
(* JavaScript values *)

Undefined == "undefined"

\* !x of a string-or-undefined value: undefined and "" are falsy
Truthy(s) == s # Undefined /\ s # ""

\* String.prototype.includes
Includes(s, sub) ==
  \E i \in 1..(Len(s) - Len(sub) + 1) : SubSeq(s, i, i + Len(sub) - 1) = sub

\* new Date().toISOString().split('T')[0]: the calendar date of a clock value
DateOf(t) == t \div DayLen

Dates == { DateOf(t) : t \in Times }

----------------------------------------------------------------------------
(* Requests *)

Methods == {"GET", "POST", "PUT", "OPTIONS"}
Paths == {"/health", "/api/chat", "/api/models", "/nope"}

UserTurn == [role |-> "user", content |-> "hi"]
AssistantTurn == [role |-> "assistant", content |-> "yo"]

\* the `messages` field: undefined, an array of turns, or a truthy non-array
NoMessages == [kind |-> "undefined", items |-> << >>]
MessagesValues ==
  { NoMessages, [kind |-> "other", items |-> << >>] } \cup
  { [kind |-> "array", items |-> s] :
      s \in { << >>, <<UserTurn>>, <<AssistantTurn, UserTurn>> } }

\* ChatRequestBody
Bodies ==
  [ message  : {Undefined, "", "hi"},
    messages : MessagesValues,
    model    : {Undefined, "mistral"},
    stream   : {Undefined, "true", "false"},
    system   : {Undefined, "be brief"} ]

EmptyBody ==
  [ message |-> Undefined, messages |-> NoMessages, model |-> Undefined,
    stream |-> Undefined, system |-> Undefined ]

----------------------------------------------------------------------------
(* Responses, adapter calls and adapter outcomes *)

CorsHeaders ==
  { <<"Access-Control-Allow-Origin", "*">>,
    <<"Access-Control-Allow-Methods", "GET, POST, PUT, DELETE, OPTIONS">>,
    <<"Access-Control-Allow-Headers",
      "Origin, X-Requested-With, Content-Type, Accept, Authorization">>,
    <<"Access-Control-Max-Age", "86400">> }

\* a response nothing was written to yet; status 0 and sent "none": not sent;
\* timestamp -1: the body has no timestamp
NoRes ==
  [ status |-> 0, sent |-> "none", headers |-> {},
    success |-> Undefined, error |-> Undefined, message |-> Undefined,
    model |-> Undefined, response |-> Undefined, created_at |-> Undefined,
    models |-> << >>, timestamp |-> -1 ]

\* what ollama.chat can settle with: a completion, or a thrown error's text
ErrMsgs ==
  { "connect ECONNREFUSED 127.0.0.1:11434",
    "read ECONNREFUSED",
    "fetch failed",
    "failed to connect to model runner",
    "model 'mistral' not found",
    "Model load error",
    "timeout",
    "" }

CreatedAts == {Undefined, "2024-01-01T00:00:00Z", "garbage"}

\* the `models` field of a list response: undefined, or an array
NoModels == [kind |-> "undefined", items |-> << >>]

ChatOutcomes ==
  [ ok : {TRUE}, content : {"Hello!", ""}, created_at : CreatedAts,
    err : {""}, models : {NoModels} ]
  \cup
  [ ok : {FALSE}, content : {""}, created_at : {Undefined}, err : ErrMsgs,
    models : {NoModels} ]

NoOutcome ==
  [ ok |-> FALSE, content |-> "", created_at |-> Undefined, err |-> "",
    models |-> NoModels ]

\* ModelDescriptor, as ollama.list gives it: modified_at a date string, a
\* string that is no date, or absent
Descriptors ==
  { [name |-> "llama3.1", modified_at |-> "2024-01-01T00:00:00Z",
     size |-> 4661, digest |-> "sha256:aa"],
    [name |-> "mistral", modified_at |-> Undefined,
     size |-> 4109, digest |-> "sha256:bb"],
    [name |-> "codellama", modified_at |-> "garbage",
     size |-> 3825, digest |-> "sha256:cc"] }

DescriptorLists ==
  UNION { [1..n -> Descriptors] : n \in 0..MaxModels }

\* what ollama.list can settle with
ListOutcomes ==
  { [NoOutcome EXCEPT !.ok = TRUE] }
  \cup { [NoOutcome EXCEPT !.ok = TRUE, !.models = [kind |-> "array", items |-> l]] :
           l \in DescriptorLists }
  \cup { [NoOutcome EXCEPT !.err = "fetch failed"] }

\* a connection no request has arrived on
IdleReq ==
  [ pc |-> "idle", method |-> "GET", path |-> "/health", bodyOk |-> TRUE,
    body |-> EmptyBody, startTime |-> 0, listening |-> FALSE,
    visited |-> << >>, chatCalls |-> << >>, listCalls |-> 0,
    outcome |-> NoOutcome, res |-> NoRes ]

----------------------------------------------------------------------------
(* The log sink *)

\* LogEntry; conn stands for what ties an entry to its request (in the code
\* the request's ip and user agent in details, and the order of events)
Entry(level, message, statusCode, method, endpoint, conn) ==
  [ timestamp |-> now, level |-> level, message |-> message,
    statusCode |-> statusCode, method |-> method, endpoint |-> endpoint,
    duration |-> 0, conn |-> conn ]

LogInfo(message, conn) == Entry("INFO", message, 0, Undefined, Undefined, conn)

LogWarn(message, conn) == Entry("WARN", message, 0, Undefined, Undefined, conn)

LogError(message, r, statusCode, conn) ==
  Entry("ERROR", message, statusCode, r.method, r.path, conn)

\* writeLog writing at the head of the file
WriteLog_AtHead(entries) == [files EXCEPT ![logFile] = entries \o @]

\* the file writeLog appends to
LogTarget == logFile

\* writeLog, once per entry of `entries`, in order
WriteLog(entries) == [files EXCEPT ![LogTarget] = @ \o entries]

----------------------------------------------------------------------------
(* The pure parts of the middleware and of the handlers *)

\* CorsShortCircuits of a CORS middleware that only sets the headers
CorsShortCircuits_Never(method) == FALSE

\* CORS middleware: a preflight request is answered at once
CorsShortCircuits(method) == method = "OPTIONS"

\* Route with the handlers mounted by path alone (app.use(path, handler))
Route_AnyMethod(method, path) ==
  IF path = "/health" THEN "health"
  ELSE IF path = "/api/chat" THEN "chat"
  ELSE IF path = "/api/models" THEN "models"
  ELSE "notFound"

\* the route table, in registration order; none matching: the 404 handler
Route(method, path) ==
  IF method = "GET" /\ path = "/health" THEN "health"
  ELSE IF method = "OPTIONS" /\ path = "/api/chat" THEN "optionsChat"
  ELSE IF method = "OPTIONS" /\ path = "/api/models" THEN "optionsModels"
  ELSE IF method = "POST" /\ path = "/api/chat" THEN "chat"
  ELSE IF method = "GET" /\ path = "/api/models" THEN "models"
  ELSE "notFound"

\* MissingFields with `message === ''` in place of `!message`
MissingFields_StrictEmpty(body) ==
  body.message = "" /\ ~(body.messages.kind # "undefined")

\* if (!message && !messages): an array, also an empty one, is truthy
MissingFields(body) ==
  ~Truthy(body.message) /\ ~(body.messages.kind # "undefined")

\* const { model = 'llama3.1' } = req.body
ModelOf(body) == IF body.model = Undefined THEN "llama3.1" ELSE body.model

\* ChatMessages with the system prompt sent as a first turn
ChatMessages_SystemFirst(body) ==
  (IF Truthy(body.system)
     THEN << [role |-> "system", content |-> body.system] >> ELSE << >>)
  \o (IF body.messages.kind # "undefined" /\ body.messages.kind = "array"
        THEN body.messages.items
      ELSE IF Truthy(body.message)
        THEN << [role |-> "user", content |-> body.message] >>
      ELSE << >>)

\* ChatMessages with the two branches in the other order
ChatMessages_MessageFirst(body) ==
  IF Truthy(body.message)
    THEN << [role |-> "user", content |-> body.message] >>
  ELSE IF body.messages.kind # "undefined" /\ body.messages.kind = "array"
    THEN body.messages.items
  ELSE << >>

\* ChatMessages without the `else if (message)` branch
ChatMessages_NoWrap(body) ==
  IF body.messages.kind # "undefined" /\ body.messages.kind = "array"
    THEN body.messages.items
  ELSE << >>

\* chatMessages
ChatMessages(body) ==
  IF body.messages.kind # "undefined" /\ body.messages.kind = "array"
    THEN body.messages.items
  ELSE IF Truthy(body.message)
    THEN << [role |-> "user", content |-> body.message] >>
  ELSE << >>

\* ChatCall passing the request's stream flag on, as the first version did
ChatCall_StreamFromBody(body) ==
  [ model |-> ModelOf(body), messages |-> ChatMessages(body),
    stream |-> (body.stream = "true") ]

\* the argument of ollama.chat
ChatCall(body) ==
  [ model |-> ModelOf(body), messages |-> ChatMessages(body), stream |-> FALSE ]

\* Classify with the 'model' test ahead of the connection test
Classify_ModelFirst(m) ==
  IF Includes(m, "model") THEN 404
  ELSE IF Includes(m, "connect") \/ Includes(m, "ECONNREFUSED")
            \/ Includes(m, "fetch failed")
    THEN 503
  ELSE 500

\* the catch block's if / else if / else on errorMessage
Classify(m) ==
  IF Includes(m, "connect") \/ Includes(m, "ECONNREFUSED")
       \/ Includes(m, "fetch failed")
    THEN 503
  ELSE IF Includes(m, "model") THEN 404
  ELSE 500

\* `Route ${req.method} ${req.path} not found`
NotFoundMessage(method, path) == "Route " \o method \o " " \o path \o " not found"

\* new Date(s): valid or Invalid Date
ValidDate(s) == s = "2024-01-01T00:00:00Z"

\* new Date(s).toISOString() of a valid date: milliseconds are written out
ToISOString(s) == SubSeq(s, 1, 19) \o ".000Z"

\* res.status(status).json({success, error, message})
JsonError(res, status, kind, message) ==
  [ res EXCEPT !.status = status, !.sent = "json", !.success = "false",
               !.error = kind, !.message = message ]

----------------------------------------------------------------------------
(* The handlers: each gives the request as it leaves the callback and the  *)
(* log entries the callback wrote, in order                                *)

\* app.get('/health')
HealthHandler(r, i) ==
  [ req |-> [r EXCEPT !.pc = "responded",
                      !.visited = Append(@, "health"),
                      !.res = [@ EXCEPT !.status = 200, !.sent = "json",
                                        !.message = "Server is running",
                                        !.timestamp = now]],
    log |-> << >> ]

\* app.options('/api/chat') and app.options('/api/models')
OptionsHandler(r, i) ==
  [ req |-> [r EXCEPT !.pc = "responded",
                      !.visited = Append(@, Route(r.method, r.path)),
                      !.res = [@ EXCEPT !.status = 200, !.sent = "end"]],
    log |-> << >> ]

\* ChatHandler calling ollama.chat a second time
ChatHandler_CallsTwice(r, i) ==
  IF MissingFields(r.body)
    THEN [ req |-> [r EXCEPT
                      !.pc = "responded",
                      !.visited = Append(@, "chat"),
                      !.res = JsonError(@, 400,
                                "Missing required field: message or messages",
                                Undefined)],
           log |-> << LogWarn("Validation error: Missing message or messages field", i) >> ]
    ELSE [ req |-> [r EXCEPT
                      !.pc = "awaiting",
                      !.visited = Append(@, "chat"),
                      !.chatCalls = Append(Append(@, ChatCall(r.body)),
                                           ChatCall(r.body))],
           log |-> << LogInfo("Calling Ollama API", i) >> ]

\* app.post('/api/chat'), up to the await of ollama.chat
ChatHandler(r, i) ==
  IF MissingFields(r.body)
    THEN [ req |-> [r EXCEPT
                      !.pc = "responded",
                      !.visited = Append(@, "chat"),
                      !.res = JsonError(@, 400,
                                "Missing required field: message or messages",
                                Undefined)],
           log |-> << LogWarn("Validation error: Missing message or messages field", i) >> ]
    ELSE [ req |-> [r EXCEPT
                      !.pc = "awaiting",
                      !.visited = Append(@, "chat"),
                      !.chatCalls = Append(@, ChatCall(r.body))],
           log |-> << LogInfo("Calling Ollama API", i) >> ]

\* the catch block of app.post('/api/chat'), on an error whose text is m
ChatCatch(r, i, m) ==
  LET status == Classify(m) IN
  IF status = 503
    THEN [ req |-> [r EXCEPT !.pc = "responded",
                      !.res = JsonError(@, 503, "Ollama service unavailable",
                                "Could not connect to Ollama. Make sure Ollama is running and accessible.")],
           log |-> << LogError("Ollama connection error", r, 503, i) >> ]
  ELSE IF status = 404
    THEN [ req |-> [r EXCEPT !.pc = "responded",
                      !.res = JsonError(@, 404, "Model not found", m)],
           log |-> << LogError("Model not found", r, 404, i) >> ]
  ELSE [ req |-> [r EXCEPT !.pc = "responded",
                    !.res = JsonError(@, 500, "Error calling Ollama",
                              IF Truthy(m) THEN m ELSE "Unknown error occurred")],
         log |-> << LogError("Error calling Ollama API", r, 500, i) >> ]

\* app.post('/api/chat'), after ollama.chat settled with o
ChatContinue(r, i, o) ==
  IF ~o.ok THEN ChatCatch(r, i, o.err)
  ELSE
    LET said == << LogInfo("Ollama API call successful", i) >> IN
    IF Truthy(o.created_at) /\ ~ValidDate(o.created_at)
      THEN \* toISOString throws a RangeError inside the try block
           LET c == ChatCatch(r, i, "Invalid time value") IN
           [ req |-> c.req, log |-> said \o c.log ]
      ELSE [ req |-> [r EXCEPT
                        !.pc = "responded",
                        !.res = [@ EXCEPT
                          !.status = 200, !.sent = "json", !.success = "true",
                          !.model = ModelOf(r.body),
                          !.response = IF Truthy(o.content) THEN o.content
                                       ELSE "[object Object]",
                          !.created_at = IF Truthy(o.created_at)
                                           THEN ToISOString(o.created_at)
                                           ELSE Undefined]],
             log |-> said ]

\* app.get('/api/models'), up to the await of ollama.list
ModelsHandler(r, i) ==
  [ req |-> [r EXCEPT !.pc = "awaiting",
                      !.visited = Append(@, "models"),
                      !.listCalls = @ + 1],
    log |-> << LogInfo("Fetching available models", i) >> ]

\* MapModel that copies the name into the digest
MapModel_DigestFromName(d) ==
  [ name |-> d.name,
    modified_at |-> IF Truthy(d.modified_at) THEN ToISOString(d.modified_at)
                    ELSE Undefined,
    size |-> d.size,
    digest |-> d.name ]

\* the arrow function of (response.models || []).map
MapModel(d) ==
  [ name |-> d.name,
    modified_at |-> IF Truthy(d.modified_at) THEN ToISOString(d.modified_at)
                    ELSE Undefined,
    size |-> d.size,
    digest |-> d.digest ]

\* the catch block of app.get('/api/models'), on an error whose text is m
ModelsCatch(r, i, m) ==
  [ req |-> [r EXCEPT !.pc = "responded",
                      !.res = JsonError(@, 500, "Error fetching models", m)],
    log |-> << LogError("Error fetching models", r, 500, i) >> ]

\* app.get('/api/models'), after ollama.list settled with o
ModelsContinue(r, i, o) ==
  IF ~o.ok THEN ModelsCatch(r, i, o.err)
  ELSE
    LET said == << LogInfo("Models fetched successfully", i) >>
        list == IF o.models.kind = "undefined" THEN << >> ELSE o.models.items
    IN
    IF \E k \in 1..Len(list) :
         Truthy(list[k].modified_at) /\ ~ValidDate(list[k].modified_at)
      THEN \* toISOString throws a RangeError inside the try block
           LET c == ModelsCatch(r, i, "Invalid time value") IN
           [ req |-> c.req, log |-> said \o c.log ]
      ELSE [ req |-> [r EXCEPT
                        !.pc = "responded",
                        !.res = [@ EXCEPT
                          !.status = 200, !.sent = "json", !.success = "true",
                          !.models = [k \in 1..Len(list) |-> MapModel(list[k])]]],
             log |-> said ]

\* the 404 handler
NotFoundHandler(r, i) ==
  [ req |-> [r EXCEPT !.pc = "responded",
                      !.visited = Append(@, "notFound"),
                      !.res = JsonError(@, 404, "Not found",
                                NotFoundMessage(r.method, r.path))],
    log |-> << LogWarn("Route not found", i) >> ]

\* the error handler, reached when express.json rejects the body
ErrorHandler(r, i) ==
  [ req |-> [r EXCEPT !.pc = "responded",
                      !.visited = Append(@, "errorHandler"),
                      !.res = JsonError(@, 500, "Internal server error",
                                "Unexpected token in JSON")],
    log |-> << LogError("Unhandled error in Express middleware", r, 500, i) >> ]

\* LoggingMiddleware that logs the arrival but registers no 'finish' listener
LoggingMiddleware_NoListener(r, i) ==
  [ req |-> [r EXCEPT !.startTime = now,
                      !.visited = Append(@, "logging")],
    log |-> << LogInfo("Request: " \o r.method \o " " \o r.path, i) >> ]

\* the request logging middleware: the arrival entry, the 'finish' listener
LoggingMiddleware(r, i) ==
  [ req |-> [r EXCEPT !.startTime = now, !.listening = TRUE,
                      !.visited = Append(@, "logging")],
    log |-> << LogInfo("Request: " \o r.method \o " " \o r.path, i) >> ]

\* the router: the first matching route's handler
Dispatch(r, i) ==
  LET h == Route(r.method, r.path) IN
  CASE h = "health" -> HealthHandler(r, i)
    [] h \in {"optionsChat", "optionsModels"} -> OptionsHandler(r, i)
    [] h = "chat" -> ChatHandler(r, i)
    [] h = "models" -> ModelsHandler(r, i)
    [] OTHER -> NotFoundHandler(r, i)

\* the chain behind the CORS middleware: express.json, logging, router
Chain(r, i) ==
  LET parsed == [r EXCEPT !.visited = Append(@, "json")] IN
  IF ~r.bodyOk THEN ErrorHandler(parsed, i)
  ELSE LET l == LoggingMiddleware(parsed, i)
           d == Dispatch(l.req, i)
       IN [ req |-> d.req, log |-> l.log \o d.log ]

\* the listener of the response's 'finish' event
FinishEntry(r, i) ==
  [ Entry(IF r.res.status >= 400 THEN "ERROR" ELSE "INFO",
          "Response: " \o r.method \o " " \o r.path,
          r.res.status, r.method, r.path, i)
    EXCEPT !.duration = now - r.startTime ]

----------------------------------------------------------------------------
(* The chat UI: src/client/src/App.tsx.  A handler runs to completion and  *)
(* React renders before the next event, so one action is one DOM event or  *)
(* the continuation of sendMessage after its fetch settled.  A control     *)
(* that is rendered disabled dispatches no event.                          *)

\* the value of a useState<string | null> that holds no string
Null == "null"

\* the <option>s of the model <select>
ModelOptions == {"llama3.1", "llama2", "mistral", "codellama"}

\* what the textarea can hold
Inputs == {"", " ", " hi "}

RECURSIVE TrimStart(_)
TrimStart(s) ==
  IF Len(s) > 0 /\ SubSeq(s, 1, 1) = " "
    THEN TrimStart(SubSeq(s, 2, Len(s)))
    ELSE s

RECURSIVE TrimEnd(_)
TrimEnd(s) ==
  IF Len(s) > 0 /\ SubSeq(s, Len(s), Len(s)) = " "
    THEN TrimEnd(SubSeq(s, 1, Len(s) - 1))
    ELSE s

\* String.prototype.trim
Trim(s) == TrimEnd(TrimStart(s))

\* a || b of string-or-undefined values
Or(a, b) == IF Truthy(a) THEN a ELSE b

Digit(d) == SubSeq("0123456789", d + 1, d + 1)

\* a number in a template string
RECURSIVE NumberToString(_)
NumberToString(n) ==
  IF n < 10 THEN Digit(n)
            ELSE NumberToString(n \div 10) \o Digit(n % 10)

\* config.server of client/config.json
ConfigServer == [host |-> "192.168.5.214", port |-> 3000]

\* getApiBaseUrl
ApiBaseUrl ==
  "http://" \o ConfigServer.host \o ":" \o NumberToString(ConfigServer.port)

\* what the fetch of sendMessage settles with: a rejection (no response was
\* received) or a response, whose body is a JSON object, the JSON value
\* null, or not JSON
StatusLines ==
  { <<200, "OK">>, <<404, "Not Found">>, <<503, "Service Unavailable">> }

FetchOutcomes ==
  { [ rejected |-> TRUE, reason |-> m, status |-> 0, statusText |-> "",
      json |-> "none", success |-> Undefined, response |-> Undefined,
      error |-> Undefined, message |-> Undefined ] :
      m \in { "Failed to fetch", "Load failed",
              "NetworkError when attempting to fetch resource." } }
  \cup
  { o \in [ rejected : {FALSE}, reason : {""},
            status : {200, 404, 503},
            statusText : {"OK", "Not Found", "Service Unavailable"},
            json : {"object", "null", "unparseable"},
            success : {Undefined, "true", "false"},
            response : {Undefined, "", "Hello!"},
            error : {Undefined, "Service unavailable"},
            message : {Undefined, "Cannot connect to Ollama"} ] :
      /\ <<o.status, o.statusText>> \in StatusLines
      /\ o.json # "object" =>
           /\ o.success = Undefined /\ o.response = Undefined
           /\ o.error = Undefined /\ o.message = Undefined
      \* the proxy's answers that are not 2xx carry success: false only
      /\ o.json = "object" /\ o.status # 200 =>
           o.success = "false" /\ o.response = Undefined }

\* no fetch has settled
NoFetchOutcome ==
  [ rejected |-> FALSE, reason |-> "", status |-> 0, statusText |-> "",
    json |-> "none", success |-> Undefined, response |-> Undefined,
    error |-> Undefined, message |-> Undefined ]

\* Response.ok
Ok(o) == o.status >= 200 /\ o.status <= 299

\* the message of the TypeError of a property read on null
NullRead(prop) ==
  "Cannot read properties of null (reading '" \o prop \o "')"

Thrown(type, message) == [type |-> type, message |-> message]
NoThrow == [type |-> "none", message |-> ""]

\* the fallback of a response that is not ok
StatusLine(o) ==
  "Server error: " \o NumberToString(o.status) \o " " \o o.statusText

NotOkMessage_ErrorFirst(o) == Or(Or(o.error, o.message), StatusLine(o))

\* errorData.message || errorData.error || `Server error: ...`
NotOkMessage(o) == Or(Or(o.message, o.error), StatusLine(o))

\* data.error || data.message || 'Failed to get response'
NoResponseMessage(o) == Or(Or(o.error, o.message), "Failed to get response")

\* the try block of sendMessage after the fetch: what it throws, the
\* assistant turn it appends, the error string it sets
TryBlock(o) ==
  LET none == [ thrown |-> NoThrow, turns |-> << >>, error |-> Null ]
      unparsed == [ o EXCEPT !.success = Undefined, !.response = Undefined,
                             !.error = Undefined, !.message = Undefined ]
  IN  IF o.rejected
        THEN [none EXCEPT !.thrown = Thrown("TypeError", o.reason)]
      ELSE IF ~Ok(o)
        THEN IF o.json = "null"
               THEN [none EXCEPT !.thrown =
                       Thrown("TypeError", NullRead("message"))]
               ELSE [none EXCEPT !.thrown =
                       Thrown("Error",
                              NotOkMessage(IF o.json = "unparseable"
                                             THEN unparsed ELSE o))]
      ELSE IF o.json = "unparseable"
        THEN [none EXCEPT !.thrown =
                Thrown("SyntaxError", "Unexpected token < in JSON at position 0")]
      ELSE IF o.json = "null"
        THEN [none EXCEPT !.thrown = Thrown("TypeError", NullRead("success"))]
      ELSE IF o.success = "true" /\ Truthy(o.response)
        THEN [none EXCEPT !.turns =
                << [role |-> "assistant", content |-> o.response] >>]
      ELSE [none EXCEPT !.error = NoResponseMessage(o)]

\* the text shown when no response was received
CannotConnect ==
  "Cannot connect to API server at " \o ApiBaseUrl
    \o ". Possible issues: - Server is not running"
    \o " - CORS is blocking the request - Network connectivity issue"
    \o " - Firewall blocking the connection Please check:"
    \o " 1. The Express server is running on " \o ApiBaseUrl
    \o " 2. CORS is enabled on the server"
    \o " 3. Your network allows connections to this IP"

\* the catch block of sendMessage: the error string of what was thrown
CatchBlock(err) ==
  IF err.type = "TypeError"
    THEN IF Includes(err.message, "Failed to fetch")
              \/ Includes(err.message, "Load failed")
           THEN CannotConnect
           ELSE "Network error: " \o err.message
    ELSE err.message

FinallyBlock_KeepsLoadingOnThrow(t) == t.thrown.type # "none"

\* the finally block of sendMessage: the loading flag after a try block
FinallyBlock(t) == FALSE

SendRejected_NoTrim(in, ld) == in = "" \/ ld

\* the guard of sendMessage: !input.trim() || loading
SendRejected(in, ld) == Trim(in) = "" \/ ld

UserMessage_Untrimmed(in) == [role |-> "user", content |-> in]

\* userMessage of sendMessage
UserMessage(in) == [role |-> "user", content |-> Trim(in)]

\* the body of the POST of sendMessage
PostBody(userMessage, selected) ==
  [EmptyBody EXCEPT !.message = userMessage.content, !.model = selected]

Event(name) == [name |-> name, settled |-> NoFetchOutcome]

\* sendMessage up to its await; a POST carries, next to its body, the turns
\* the list holds once the user turn is appended
SendMessage ==
  IF SendRejected(input, loading)
    THEN UNCHANGED <<messages, input, loading, error, model, posts, pending>>
    ELSE LET userMessage == UserMessage(input) IN
           /\ messages' = Append(messages, userMessage)
           /\ input' = ""
           /\ loading' = TRUE
           /\ error' = Null
           /\ posts' = Append(posts, [ body |-> PostBody(userMessage, model),
                                       turns |-> Append(messages, userMessage) ])
           /\ pending' = pending \cup {Len(posts) + 1}
           /\ UNCHANGED model

ClearChat_AlsoInput ==
  /\ messages' = << >>
  /\ error' = Null
  /\ input' = ""

\* clearChat
ClearChat ==
  /\ messages' = << >>
  /\ error' = Null
  /\ input' = input

\* onChange of the textarea, which is disabled while loading
ChangeInput ==
  /\ ~loading
  /\ \E v \in Inputs : input' = v
  /\ event' = Event("change")
  /\ UNCHANGED <<messages, loading, error, model, posts, pending>>

\* onChange of the model select, which is disabled while loading
SelectModel ==
  /\ ~loading
  /\ \E m \in ModelOptions : model' = m
  /\ event' = Event("select")
  /\ UNCHANGED <<messages, input, loading, error, posts, pending>>

\* onClick of the send button, disabled={!input.trim() || loading}
ClickSend ==
  /\ ~(Trim(input) = "" \/ loading)
  /\ Len(posts) < MaxSends
  /\ SendMessage
  /\ event' = Event("click")

\* handleKeyPress: onKeyPress of the textarea, which is disabled while loading
HandleKeyPress ==
  /\ ~loading
  /\ Len(posts) < MaxSends
  /\ \E key \in {"Enter", "a"}, shiftKey \in BOOLEAN :
       /\ IF key = "Enter" /\ ~shiftKey
            THEN SendMessage
            ELSE UNCHANGED <<messages, input, loading, error, model,
                             posts, pending>>
       /\ event' = Event(IF key = "Enter" /\ ~shiftKey
                           THEN "enter" ELSE "key")

\* ClickClear of a clear button that is never disabled
ClickClear_WhileLoading ==
  /\ ClearChat
  /\ event' = Event("clear")
  /\ UNCHANGED <<loading, model, posts, pending>>

\* onClick of the clear button, which is disabled while loading
ClickClear ==
  /\ ~loading
  /\ ClearChat
  /\ event' = Event("clear")
  /\ UNCHANGED <<loading, model, posts, pending>>

\* the fetch of POST k settles and sendMessage runs to its end
FetchSettle ==
  \E k \in pending, o \in FetchOutcomes :
    LET t == TryBlock(o) IN
      /\ messages' = messages \o t.turns
      /\ error' = IF t.thrown.type # "none" THEN CatchBlock(t.thrown)
                  ELSE IF t.error # Null THEN t.error
                  ELSE error
      /\ loading' = FinallyBlock(t)
      /\ pending' = pending \ {k}
      /\ event' = [name |-> "settle", settled |-> o]
      /\ UNCHANGED <<input, model, posts>>

----------------------------------------------------------------------------
(* The state machine *)

\* the CORS middleware: headers on every response, preflights answered
CorsMiddleware(r) ==
  LET h == [r EXCEPT !.visited = Append(@, "cors"),
                     !.res = [@ EXCEPT !.headers = CorsHeaders]] IN
  IF CorsShortCircuits(r.method)
    THEN [h EXCEPT !.pc = "responded",
                   !.res = [@ EXCEPT !.status = 200, !.sent = "end"]]
    ELSE [h EXCEPT !.pc = "parsing"]

\* the requests a client can send: any method and path; a JSON body that
\* express.json accepts or rejects; the fields matter to POST /api/chat only
Requests ==
  { q \in [method : Methods, path : Paths, bodyOk : BOOLEAN, body : Bodies] :
      \/ q.bodyOk /\ q.method = "POST" /\ q.path = "/api/chat"
      \/ q.body = EmptyBody }

\* the requests of concurrent traffic: a health check, a listing of the
\* models, and a chat with and without a system prompt
Traffic ==
  { q \in Requests :
      /\ q.bodyOk
      /\ \/ q.body = EmptyBody
            /\ <<q.method, q.path>> \in
                 { <<"GET", "/health">>, <<"GET", "/api/models">> }
         \/ q.body \in { [EmptyBody EXCEPT !.message = "hi"],
                         [EmptyBody EXCEPT !.message = "hi",
                                           !.system = "be brief"] } }

\* the outcomes of ollama.chat under concurrent traffic
TrafficOutcomes ==
  { o \in ChatOutcomes :
      /\ o.ok => o.content = "Hello!" /\ o.created_at = Undefined
      /\ ~o.ok => o.err \in {"fetch failed", "model 'mistral' not found"} }

\* the outcomes of ollama.list under concurrent traffic
TrafficListOutcomes ==
  { o \in ListOutcomes :
      o.ok => /\ o.models.kind = "array"
              /\ Len(o.models.items) = 1
              /\ o.models.items[1].name = "llama3.1" }

\* connections are numbered in the order the server accepts them
Accepted(i) == \A j \in 1..(i - 1) : reqs[j].pc # "idle"

Init ==
  /\ now = 0
  /\ logFile = DateOf(0)
  /\ files = [d \in Dates |->
               IF d = DateOf(0)
                 THEN << [ timestamp |-> 0, level |-> "INFO",
                           message |-> "Server started", statusCode |-> 0,
                           method |-> Undefined, endpoint |-> Undefined,
                           duration |-> 0, conn |-> 0 ] >>
                 ELSE << >>]
  /\ reqs = [i \in Conns |-> IdleReq]
  /\ process = [alive |-> TRUE, rejections |-> 0]
  /\ messages = << >>
  /\ input = ""
  /\ loading = FALSE
  /\ error = Null
  /\ model = "llama3.1"
  /\ posts = << >>
  /\ pending = {}
  /\ event = Event("load")

\* a request of Q arrives on connection i and enters the CORS middleware
Receive(i, Q) ==
  /\ process.alive
  /\ reqs[i].pc = "idle"
  /\ \E q \in Q :
       reqs' = [reqs EXCEPT ![i] =
                  CorsMiddleware([IdleReq EXCEPT !.method = q.method,
                                                 !.path = q.path,
                                                 !.bodyOk = q.bodyOk,
                                                 !.body = q.body])]
  /\ UNCHANGED <<now, logFile, files, ui, process>>

\* Proceed of a server that handles one adapter call at a time
Proceed_Serialized(i) ==
  /\ process.alive
  /\ reqs[i].pc = "parsing"
  /\ \A j \in Conns : reqs[j].pc # "awaiting"
  /\ LET c == Chain(reqs[i], i) IN
       /\ reqs' = [reqs EXCEPT ![i] = c.req]
       /\ files' = WriteLog(c.log)
  /\ UNCHANGED <<now, logFile, ui, process>>

\* the body of request i was read: express.json, logging middleware, router
Proceed(i) ==
  /\ process.alive
  /\ reqs[i].pc = "parsing"
  /\ LET c == Chain(reqs[i], i) IN
       /\ reqs' = [reqs EXCEPT ![i] = c.req]
       /\ files' = WriteLog(c.log)
  /\ UNCHANGED <<now, logFile, ui, process>>

\* the ollama.chat call of request i settles with an outcome of O
ChatSettle(i, O) ==
  /\ process.alive
  /\ reqs[i].pc = "awaiting"
  /\ Route(reqs[i].method, reqs[i].path) = "chat"
  /\ \E o \in O :
       LET c == ChatContinue([reqs[i] EXCEPT !.outcome = o], i, o) IN
         /\ reqs' = [reqs EXCEPT ![i] = c.req]
         /\ files' = WriteLog(c.log)
  /\ UNCHANGED <<now, logFile, ui, process>>

\* the ollama.list call of request i settles with an outcome of O
ModelsSettle(i, O) ==
  /\ process.alive
  /\ reqs[i].pc = "awaiting"
  /\ Route(reqs[i].method, reqs[i].path) = "models"
  /\ \E o \in O :
       LET c == ModelsContinue([reqs[i] EXCEPT !.outcome = o], i, o) IN
         /\ reqs' = [reqs EXCEPT ![i] = c.req]
         /\ files' = WriteLog(c.log)
  /\ UNCHANGED <<now, logFile, ui, process>>

\* the response of request i was handed to the network: 'finish' is emitted
Finish(i) ==
  /\ process.alive
  /\ reqs[i].pc = "responded"
  /\ reqs' = [reqs EXCEPT ![i].pc = "done"]
  /\ files' = IF reqs[i].listening
                THEN WriteLog(<< FinishEntry(reqs[i], i) >>)
                ELSE files
  /\ UNCHANGED <<now, logFile, ui, process>>

\* time passes
Tick ==
  /\ now < MaxNow
  /\ now' = now + 1
  /\ UNCHANGED <<logFile, files, reqs, ui, process>>

\* one request, any request: it arrives on the first connection
Next ==
  \/ Receive(1, Requests)
  \/ Proceed(1)
  \/ ChatSettle(1, ChatOutcomes)
  \/ ModelsSettle(1, ListOutcomes)
  \/ Finish(1)
  \/ Tick

Spec == Init /\ [][Next]_vars

\* concurrent traffic: a request on every connection, in any interleaving
NextTraffic ==
  \/ \E i \in Conns : Accepted(i) /\ Receive(i, Traffic)
  \/ \E i \in Conns : Proceed(i)
  \/ \E i \in Conns : ChatSettle(i, TrafficOutcomes)
  \/ \E i \in Conns : ModelsSettle(i, TrafficListOutcomes)
  \/ \E i \in Conns : Finish(i)
  \/ Tick

SpecTraffic == Init /\ [][NextTraffic]_vars

\* logError is called without a request
NoRequest == [method |-> Undefined, path |-> Undefined]

Exit_KeepsRunning(code) == process

\* process.exit
Exit(code) == [process EXCEPT !.alive = FALSE]

\* process.on('uncaughtException')
UncaughtException ==
  /\ process.alive
  /\ files' = WriteLog(<< LogError("Uncaught Exception", NoRequest, 0, 0) >>)
  /\ process' = Exit(1)
  /\ UNCHANGED <<now, logFile, reqs, ui>>

\* process.on('unhandledRejection')
UnhandledRejection ==
  /\ process.alive
  /\ process.rejections < MaxRejections
  /\ files' = WriteLog(<< LogError("Unhandled Promise Rejection",
                                   NoRequest, 0, 0) >>)
  /\ process' = [process EXCEPT !.rejections = @ + 1]
  /\ UNCHANGED <<now, logFile, reqs, ui>>

\* one request of the traffic on the first connection, and what can go
\* wrong outside a request's try block
NextProcess ==
  \/ Receive(1, Traffic)
  \/ Proceed(1)
  \/ ChatSettle(1, TrafficOutcomes)
  \/ ModelsSettle(1, TrafficListOutcomes)
  \/ Finish(1)
  \/ Tick
  \/ UncaughtException
  \/ UnhandledRejection

SpecProcess == Init /\ [][NextProcess]_vars

\* one session of the chat UI
NextUI ==
  \/ ChangeInput
  \/ SelectModel
  \/ ClickSend
  \/ HandleKeyPress
  \/ ClickClear
  \/ FetchSettle

SpecUI == Init /\ [][NextUI /\ UNCHANGED server]_vars

----------------------------------------------------------------------------
(* The claims *)

Answered(r) == r.pc \in {"responded", "done"}

IsChat(r) == r.pc # "idle" /\ r.method = "POST" /\ r.path = "/api/chat" /\ r.bodyOk

MissingFieldError == "Missing required field: message or messages"

Rejected400(r) ==
  /\ r.res.status = 400
  /\ r.res.sent = "json"
  /\ r.res.success = "false"
  /\ r.res.error = MissingFieldError
  /\ r.res.message = Undefined

\* C1: a POST /api/chat whose (parsed) body has neither message nor messages
\* set is answered 400 with the fixed missing-field error, and ollama.chat
\* is never called for it.
C1_NeitherFieldIs400 ==
  \A i \in Conns :
    LET r == reqs[i] IN
    (IsChat(r) /\ r.body.message = Undefined /\ r.body.messages.kind = "undefined")
      => /\ r.chatCalls = << >>
         /\ r.pc # "awaiting"
         /\ Answered(r) => Rejected400(r)

C1_Witness ==
  \E i \in Conns :
    LET r == reqs[i] IN
    /\ IsChat(r) /\ r.pc = "done"
    /\ r.body.message = Undefined /\ r.body.messages.kind = "undefined"
    /\ r.body.model = "mistral" /\ r.body.stream = "true"
    /\ Rejected400(r) /\ r.chatCalls = << >>

\* C2: a POST /api/chat whose message is absent or "" and whose messages is
\* absent or the empty array is answered 400 and ollama.chat is not called
\* for it (so not called with an empty turn sequence).
C2_EmptyIsRejected ==
  \A i \in Conns :
    LET r == reqs[i] IN
    (IsChat(r) /\ ~Truthy(r.body.message)
       /\ (\/ r.body.messages.kind = "undefined"
           \/ r.body.messages.kind = "array" /\ r.body.messages.items = << >>))
      => /\ r.chatCalls = << >>
         /\ r.pc # "awaiting"
         /\ Answered(r) => Rejected400(r)

\* C3: for a POST /api/chat with a non-empty messages array, message set or
\* not, the turns passed to ollama.chat are that array, unchanged.
C3_MessagesVerbatim ==
  \A i \in Conns :
    LET r == reqs[i] IN
    (IsChat(r) /\ r.pc # "parsing"
       /\ r.body.messages.kind = "array" /\ r.body.messages.items # << >>)
      => /\ Len(r.chatCalls) = 1
         /\ r.chatCalls[1].messages = r.body.messages.items

C3_Witness ==
  \E i \in Conns :
    LET r == reqs[i] IN
    /\ IsChat(r) /\ r.pc = "awaiting"
    /\ r.body.message = "hi"
    /\ r.body.messages.items = <<AssistantTurn, UserTurn>>
    /\ r.chatCalls[1].messages = <<AssistantTurn, UserTurn>>

\* C4: for a POST /api/chat with only message set (non-empty, messages
\* absent), the turns passed to ollama.chat are exactly one user turn whose
\* content is message.
C4_MessageIsOneUserTurn ==
  \A i \in Conns :
    LET r == reqs[i] IN
    (IsChat(r) /\ r.pc # "parsing"
       /\ Truthy(r.body.message) /\ r.body.messages.kind = "undefined")
      => /\ Len(r.chatCalls) = 1
         /\ Len(r.chatCalls[1].messages) = 1
         /\ r.chatCalls[1].messages[1].role = "user"
         /\ r.chatCalls[1].messages[1].content = r.body.message

C4_Witness ==
  \E i \in Conns :
    LET r == reqs[i] IN
    /\ IsChat(r) /\ r.pc = "awaiting"
    /\ r.body.message = "hi" /\ r.body.messages.kind = "undefined"
    /\ r.chatCalls = << [model |-> "llama3.1",
                         messages |-> << [role |-> "user", content |-> "hi"] >>,
                         stream |-> FALSE] >>

LinesOf(i) ==
  UNION { { <<d, k>> : k \in { n \in 1..Len(files[d]) : files[d][n].conn = i } } :
          d \in Dates }

LineAt(p) == files[p[1]][p[2]]

Earlier(p, q) == p[1] < q[1] \/ (p[1] = q[1] /\ p[2] < q[2])

\* the entries of the catch block of the chat route
CatchMessages ==
  {"Ollama connection error", "Model not found", "Error calling Ollama API"}

ConnectionError(m) ==
  Includes(m, "connect") \/ Includes(m, "ECONNREFUSED") \/ Includes(m, "fetch failed")

\* C6: when ollama.chat fails with message m the answer is 503 "Ollama
\* service unavailable" if m contains "connect", "ECONNREFUSED" or "fetch
\* failed" (also when it contains "model"), else 404 "Model not found" if m
\* contains "model", else 500 "Error calling Ollama"; the one ERROR entry the
\* catch block writes carries the same status code.
C6_FailureClassified ==
  \A i \in Conns :
    LET r == reqs[i]
        m == r.outcome.err
        caught == { p \in LinesOf(i) : LineAt(p).message \in CatchMessages }
    IN
    (IsChat(r) /\ Answered(r) /\ r.chatCalls # << >> /\ ~r.outcome.ok)
      => /\ r.res.sent = "json" /\ r.res.success = "false"
         /\ ConnectionError(m)
              => r.res.status = 503 /\ r.res.error = "Ollama service unavailable"
         /\ (~ConnectionError(m) /\ Includes(m, "model"))
              => r.res.status = 404 /\ r.res.error = "Model not found"
         /\ (~ConnectionError(m) /\ ~Includes(m, "model"))
              => r.res.status = 500 /\ r.res.error = "Error calling Ollama"
         /\ Cardinality(caught) = 1
         /\ \A p \in caught :
              LineAt(p).level = "ERROR" /\ LineAt(p).statusCode = r.res.status

C6_Witness ==
  \E i \in Conns :
    LET r == reqs[i] IN
    /\ IsChat(r) /\ r.pc = "done" /\ ~r.outcome.ok
    /\ r.outcome.err = "failed to connect to model runner"
    /\ r.res.status = 503 /\ r.res.error = "Ollama service unavailable"
    /\ \E p \in LinesOf(i) :
         LineAt(p).message = "Ollama connection error" /\ LineAt(p).statusCode = 503


ArrivalLines(i) ==
  { p \in LinesOf(i) :
      LineAt(p).message = "Request: " \o reqs[i].method \o " " \o reqs[i].path }

CompletionLines(i) ==
  { p \in LinesOf(i) :
      LineAt(p).message = "Response: " \o reqs[i].method \o " " \o reqs[i].path }

\* C7 as stated: every request, of any method and path, has produced exactly
\* one arrival line by the time it is answered and exactly one completion
\* line once its response has finished, the arrival line before the
\* completion line.
C7_EveryRequestLoggedTwice ==
  \A i \in Conns :
    /\ Answered(reqs[i]) => Cardinality(ArrivalLines(i)) = 1
    /\ reqs[i].pc = "done" => Cardinality(CompletionLines(i)) = 1
    /\ \A a \in ArrivalLines(i), c \in CompletionLines(i) : Earlier(a, c)

\* the requests the logging middleware sees: not a preflight, and a body
\* express.json accepted
Logged(r) == r.method # "OPTIONS" /\ r.bodyOk /\ r.pc \notin {"idle", "parsing"}

\* C7 as amended: a non-OPTIONS request whose body express.json accepts has
\* exactly one arrival line from the moment the chain ran, and exactly one
\* completion line, after the arrival line and carrying the response's
\* status, from the moment its response finished and none before; an OPTIONS
\* request and a request whose body express.json rejects have neither line.
C7_LoggedTwiceBehindCors ==
  \A i \in Conns :
    LET r == reqs[i] IN
    /\ Cardinality(ArrivalLines(i)) = IF Logged(r) THEN 1 ELSE 0
    /\ Cardinality(CompletionLines(i)) = IF Logged(r) /\ r.pc = "done" THEN 1 ELSE 0
    /\ \A a \in ArrivalLines(i), c \in CompletionLines(i) :
         /\ Earlier(a, c)
         /\ LineAt(a).timestamp <= LineAt(c).timestamp
         /\ LineAt(c).statusCode = r.res.status
         /\ LineAt(c).level = IF r.res.status >= 400 THEN "ERROR" ELSE "INFO"

C7_Witness ==
  \E i \in Conns :
    LET r == reqs[i] IN
    /\ r.pc = "done" /\ r.method = "POST" /\ r.path = "/api/chat"
    /\ r.res.status = 503
    /\ \E a \in ArrivalLines(i), c \in CompletionLines(i) :
         /\ Earlier(a, c)
         /\ LineAt(a).timestamp < LineAt(c).timestamp
         /\ LineAt(c).level = "ERROR" /\ LineAt(c).statusCode = 503

\* C8: every log entry is in the file named by the calendar date of its own
\* timestamp, also across a date change.
C8_EntriesInTheirDaysFile ==
  \A d \in Dates :
    \A k \in 1..Len(files[d]) : DateOf(files[d][k].timestamp) = d

CorsAnswer(r) ==
  /\ r.res.status = 200
  /\ r.res.sent = "end"
  /\ <<"Access-Control-Allow-Origin", "*">> \in r.res.headers
  /\ <<"Access-Control-Allow-Methods", "GET, POST, PUT, DELETE, OPTIONS">>
       \in r.res.headers
  /\ r.res.success = Undefined /\ r.res.error = Undefined
  /\ r.res.message = Undefined /\ r.res.response = Undefined

\* C9: an OPTIONS request, for any path, is answered 200 with an empty body
\* and the CORS headers by the CORS middleware, and nothing behind that
\* middleware runs for it: no body parsing, no validation, no route, no
\* adapter call, no 404 handler, no log entry.
C9_PreflightShortCircuits ==
  \A i \in Conns :
    LET r == reqs[i] IN
    r.method = "OPTIONS"
      => /\ Answered(r)
         /\ CorsAnswer(r)
         /\ r.visited = <<"cors">>
         /\ r.chatCalls = << >> /\ r.listCalls = 0
         /\ LinesOf(i) = {}

C9_Witness ==
  \E i \in Conns, p \in {"/nope", "/api/chat"} :
    LET r == reqs[i] IN
    /\ r.method = "OPTIONS" /\ r.path = p /\ r.pc = "done"
    /\ CorsAnswer(r) /\ r.visited = <<"cors">>

NotFoundAnswer(r, i) ==
  /\ r.res.status = 404
  /\ r.res.sent = "json"
  /\ r.res.success = "false"
  /\ r.res.error = "Not found"
  /\ r.res.message = "Route " \o r.method \o " " \o r.path \o " not found"
  /\ Cardinality({ p \in LinesOf(i) :
                     LineAt(p).level = "WARN"
                       /\ LineAt(p).message = "Route not found" }) = 1
  /\ r.chatCalls = << >> /\ r.listCalls = 0

\* the routes of the server: GET /health, POST /api/chat, GET /api/models
Routed(method, path) ==
  <<method, path>> \in
    { <<"GET", "/health">>, <<"POST", "/api/chat">>, <<"GET", "/api/models">> }

\* C10 as stated: any non-OPTIONS request whose method and path match no
\* route is answered 404 "Not found" with `Route <method> <path> not found`,
\* one WARN entry is written and no adapter call is made.
C10_UnroutedIs404 ==
  \A i \in Conns :
    LET r == reqs[i] IN
    (Answered(r) /\ r.method # "OPTIONS" /\ ~Routed(r.method, r.path))
      => NotFoundAnswer(r, i)

\* C10 as amended: any non-OPTIONS request whose body express.json accepts
\* and whose method and path match no route is answered 404 "Not found" with
\* `Route <method> <path> not found`, one WARN entry is written and no
\* adapter call is made.
C10_UnroutedParsedIs404 ==
  \A i \in Conns :
    LET r == reqs[i] IN
    (r.pc \notin {"idle", "parsing"} /\ r.bodyOk
       /\ r.method # "OPTIONS" /\ ~Routed(r.method, r.path))
      => Answered(r) /\ NotFoundAnswer(r, i)

C10_Witness ==
  \E i \in Conns :
    LET r == reqs[i] IN
    /\ r.pc = "done" /\ r.method = "GET" /\ r.path = "/api/chat"
    /\ r.res.status = 404 /\ r.res.message = "Route GET /api/chat not found"
    /\ r.visited = <<"cors", "json", "logging", "notFound">>


IsModels(r) == r.pc # "idle" /\ r.method = "GET" /\ r.path = "/api/models" /\ r.bodyOk

\* the descriptors ollama.list settled with
Listed(o) == IF o.models.kind = "undefined" THEN << >> ELSE o.models.items

\* the timestamp of descriptor d can be reformatted: absent, or a date
Datable(d) == d.modified_at \in {Undefined, "2024-01-01T00:00:00Z"}

\* output descriptor e is input descriptor d with only the timestamp reformatted
Reshaped(d, e) ==
  /\ e.name = d.name /\ e.size = d.size /\ e.digest = d.digest
  /\ e.modified_at = IF d.modified_at = Undefined THEN Undefined
                     ELSE "2024-01-01T00:00:00.000Z"

ModelsOk(r) ==
  /\ r.res.status = 200 /\ r.res.sent = "json" /\ r.res.success = "true"
  /\ Len(r.res.models) = Len(Listed(r.outcome))
  /\ \A k \in 1..Len(r.res.models) :
       /\ r.res.models[k].name = Listed(r.outcome)[k].name
       /\ r.res.models[k].size = Listed(r.outcome)[k].size
       /\ r.res.models[k].digest = Listed(r.outcome)[k].digest

ModelsFailed(r) ==
  /\ r.res.status = 500 /\ r.res.sent = "json" /\ r.res.success = "false"
  /\ r.res.error = "Error fetching models"
  /\ r.res.models = << >>

\* C11: when ollama.list succeeds GET /api/models answers 200
\* success:true with one descriptor per input descriptor, in order, name,
\* size and digest unchanged; when it fails the answer is 500 success:false.
C11_ModelsReshaped ==
  \A i \in Conns :
    LET r == reqs[i] IN
    (IsModels(r) /\ Answered(r))
      => /\ r.outcome.ok => ModelsOk(r)
         /\ ~r.outcome.ok => ModelsFailed(r)

\* What the route does: when ollama.list succeeds and every descriptor's
\* timestamp is absent or a date, the answer is 200 success:true with one
\* descriptor per input descriptor, in order, name, size and digest unchanged
\* and the timestamp in ISO form; when ollama.list fails, or succeeds with a
\* descriptor whose timestamp is no date, the answer is 500 success:false.
ModelsReshapedWhenDatable ==
  \A i \in Conns :
    LET r == reqs[i]
        datable == \A k \in 1..Len(Listed(r.outcome)) : Datable(Listed(r.outcome)[k])
    IN
    (IsModels(r) /\ Answered(r))
      => /\ (r.outcome.ok /\ datable)
              => /\ ModelsOk(r)
                 /\ \A k \in 1..Len(r.res.models) :
                      Reshaped(Listed(r.outcome)[k], r.res.models[k])
         /\ (~r.outcome.ok \/ ~datable) => ModelsFailed(r)

ModelsReshapedReached ==
  \E i \in Conns :
    LET r == reqs[i] IN
    /\ IsModels(r) /\ r.pc = "done" /\ r.outcome.ok /\ r.res.status = 200
    /\ Len(r.res.models) = 2
    /\ r.res.models[1].name = "mistral" /\ r.res.models[1].modified_at = Undefined
    /\ r.res.models[2].name = "llama3.1"
    /\ r.res.models[2].modified_at = "2024-01-01T00:00:00.000Z"
    /\ r.res.models[2].digest = "sha256:aa"

----------------------------------------------------------------------------
(* The claims about the chat UI *)

UIState == <<messages, input, loading, error, model, posts, pending>>

\* the event just handled called sendMessage
SendEvent == event.name \in {"click", "enter"}

IsUserTurn(t) == t.role = "user"

\* C12: a send is rejected, with no turn appended, no POST issued and no
\* state change, when the input is empty or whitespace-only or a request is
\* in flight; a session never has more than one POST outstanding; an
\* accepted send issues exactly one POST, and nothing else issues a POST.
C12_OnePostPerAcceptedSend ==
  [][ LET refused == Trim(input) = "" \/ loading \/ pending # {} IN
        /\ Cardinality(pending') <= 1
        /\ SendEvent' /\ refused => UNCHANGED UIState
        /\ SendEvent' /\ ~refused =>
             /\ Len(posts') = Len(posts) + 1
             /\ pending' = {Len(posts')}
             /\ Len(messages') = Len(messages) + 1
             /\ IsUserTurn(messages'[Len(messages')])
        /\ ~SendEvent' => posts' = posts ]_vars

\* Enter on a whitespace-only input was refused after an earlier send was
\* accepted and its request settled
C12_Witness ==
  /\ event.name = "enter"
  /\ input = " "
  /\ Len(posts) = 1
  /\ pending = {}
  /\ Len(messages) >= 1

\* C13: the loading flag is true exactly while the request of an accepted
\* send has not settled; however the request settles (a response with or
\* without a usable reply, any status, any body, or no response at all) the
\* flag is false afterwards, and a send on a non-blank input is then accepted.
C13_LoadingUntilSettled ==
  [][ /\ loading' <=> pending' # {}
      /\ event'.name = "settle" => loading /\ ~loading'
      /\ SendEvent' /\ ~loading /\ Trim(input) # "" =>
           loading' /\ Len(posts') = Len(posts) + 1 ]_vars

\* a second send was accepted after the first request settled, and its
\* request settled with a body that is not JSON
C13_Witness ==
  /\ event.name = "settle"
  /\ event.settled.json = "unparseable"
  /\ Len(posts) = 2
  /\ ~loading

\* C14: the body of every POST the UI issues carries the whole turn list:
\* the turns the proxy reads from it are all earlier turns followed by the
\* new user turn.
C14_HistoryResent ==
  \A k \in 1..Len(posts) : ChatMessages(posts[k].body) = posts[k].turns

Present(x) == x # Undefined /\ x # ""

FirstOf(a, b, c) == IF Present(a) THEN a ELSE IF Present(b) THEN b ELSE c

\* a response was received and it is not a 2xx response with a usable reply
Unusable(o) ==
  /\ ~o.rejected
  /\ ~(/\ o.status \in 200..299 /\ o.json = "object"
       /\ o.success = "true" /\ Present(o.response))

HttpStatusLine(o) ==
  CASE o.status = 200 -> "Server error: 200 OK"
    [] o.status = 404 -> "Server error: 404 Not Found"
    [] o.status = 503 -> "Server error: 503 Service Unavailable"

\* the request that settled last left the turn list as its send left it
TurnsAsSent == messages = posts[Len(posts)].turns

\* C15: after a request settled with a non-2xx status, or with a 2xx status
\* and no usable response, the error string is the body's message, else
\* its error, else the HTTP status line, and the turn list is as the send
\* left it (stated here for bodies that are JSON objects).
C15_ErrorFromMessageFirst ==
  event.name = "settle" /\ Unusable(event.settled)
    /\ event.settled.json = "object" =>
    /\ error = FirstOf(event.settled.message, event.settled.error,
                       HttpStatusLine(event.settled))
    /\ TurnsAsSent

\* What sendMessage does with a response that has no usable reply.  Not 2xx,
\* body a JSON object or not JSON (read as an empty object): message, else
\* error, else the status line.  2xx, body a JSON object: error, else
\* message, else 'Failed to get response'.  Body the JSON value null, or 2xx
\* and not JSON: the text of what the handler throws.  The turn list is as
\* the send left it.
C15_ErrorFromBody ==
  event.name = "settle" /\ Unusable(event.settled) =>
    LET o == event.settled
        ok == o.status \in 200..299 IN
      /\ ~ok /\ o.json \in {"object", "unparseable"} =>
           error = FirstOf(o.message, o.error, HttpStatusLine(o))
      /\ ok /\ o.json = "object" =>
           error = FirstOf(o.error, o.message, "Failed to get response")
      /\ ok /\ o.json = "unparseable" =>
           error = "Unexpected token < in JSON at position 0"
      /\ o.json = "null" =>
           error = "Network error: Cannot read properties of null (reading '"
                     \o (IF ok THEN "success" ELSE "message") \o "')"
      /\ TurnsAsSent

\* a 503 whose body has both fields settled: the error string is the message
C15_Witness ==
  /\ event.name = "settle"
  /\ event.settled.status = 503
  /\ event.settled.json = "object"
  /\ Present(event.settled.message)
  /\ Present(event.settled.error)
  /\ error = event.settled.message
  /\ Len(messages) = 1

\* C20: Clear empties the turn list and the error string and changes
\* nothing else: not the input buffer, the loading flag or the selected
\* model, and not the requests that are in flight.
C20_ClearFrame ==
  [][ event'.name = "clear" =>
        /\ messages' = << >>
        /\ error' = Null
        /\ UNCHANGED <<input, loading, model, posts, pending>> ]_vars

\* Clear ran after a request settled, with text in the input buffer and
\* another model selected
C20_Witness ==
  /\ event.name = "clear"
  /\ messages = << >>
  /\ error = Null
  /\ input = " hi "
  /\ model = "mistral"
  /\ Len(posts) = 1

----------------------------------------------------------------------------
(* The claims about concurrent requests *)

\* the request's handler has run up to its adapter call or its response
Handled(r) == r.pc \in {"awaiting", "responded", "done"}

WithoutSystem(b) == [b EXCEPT !.system = Undefined]

EntryFields ==
  {"timestamp", "level", "message", "statusCode", "method", "endpoint",
   "duration", "conn"}

\* C17: whatever the interleaving of the requests, a step only appends to a
\* log file: the lines it had stay as they were, the lines it gains are
\* whole entries stamped with the time of the step, behind all earlier
\* lines, and the timestamps never decrease along the file.
C17_LogAppendOnly ==
  [][ \A d \in Dates :
        /\ Len(files'[d]) >= Len(files[d])
        /\ SubSeq(files'[d], 1, Len(files[d])) = files[d]
        /\ \A k \in (Len(files[d]) + 1)..Len(files'[d]) :
             /\ DOMAIN files'[d][k] = EntryFields
             /\ files'[d][k].timestamp = now
        /\ \A k \in 2..Len(files'[d]) :
             files'[d][k - 1].timestamp <= files'[d][k].timestamp ]_vars

\* the lines of two requests alternate in the file, written at different times
C17_Witness ==
  \E a, b, c \in 1..Len(files[logFile]) :
    /\ a < b /\ b < c
    /\ files[logFile][a].conn = 1
    /\ files[logFile][b].conn = 2
    /\ files[logFile][c].conn = 1
    /\ files[logFile][a].timestamp < files[logFile][b].timestamp
    /\ files[logFile][b].timestamp < files[logFile][c].timestamp

SameRequest(r, q) ==
  /\ r.method = q.method /\ r.path = q.path
  /\ r.bodyOk = q.bodyOk /\ r.body = q.body

\* the next callback of the request on connection j can run
CanGoOn(j) ==
  /\ reqs[j].pc = "idle" /\ Accepted(j) => ENABLED Receive(j, Traffic)
  /\ reqs[j].pc = "parsing" => ENABLED Proceed(j)
  /\ reqs[j].pc = "awaiting" /\ reqs[j].path = "/api/chat" =>
       ENABLED ChatSettle(j, TrafficOutcomes)
  /\ reqs[j].pc = "awaiting" /\ reqs[j].path = "/api/models" =>
       ENABLED ModelsSettle(j, TrafficListOutcomes)
  /\ reqs[j].pc = "responded" => ENABLED Finish(j)

\* C18: while the ollama.chat call of one request is pending, every other
\* request can be accepted and can take each of its steps up to its
\* response; and two requests that are the same and whose adapter calls
\* settled the same are answered the same, whatever else was in flight and
\* in whatever order the calls settled (the health answer carries the time
\* it was given, which is left out of the comparison).
C18_OthersGoOn ==
  /\ \A i \in Conns :
       IsChat(reqs[i]) /\ reqs[i].pc = "awaiting" =>
         \A j \in Conns \ {i} : CanGoOn(j)
  /\ \A i, j \in Conns :
       /\ Answered(reqs[i]) /\ Answered(reqs[j])
       /\ SameRequest(reqs[i], reqs[j])
       /\ reqs[i].outcome = reqs[j].outcome
       => [reqs[i].res EXCEPT !.timestamp = -1]
            = [reqs[j].res EXCEPT !.timestamp = -1]

\* a chat arrived, was handled and completed while the ollama.chat call of
\* an earlier chat was pending, and that call is pending still
C18_Witness ==
  /\ IsChat(reqs[1]) /\ reqs[1].pc = "awaiting"
  /\ IsChat(reqs[2]) /\ reqs[2].pc = "done"
  /\ reqs[2].res.status = 200
  /\ \E a \in 1..Len(files[logFile]) :
       /\ files[logFile][a].conn = 1
       /\ \A b \in 1..Len(files[logFile]) :
            files[logFile][b].conn = 2 => a < b

\* a POST /api/chat whose parsed body passes the validation
Validated(r) ==
  /\ IsChat(r)
  /\ Truthy(r.body.message) \/ r.body.messages.kind # "undefined"

\* C19: a validated POST /api/chat has called ollama.chat exactly once when
\* its handler has run; it is not answered while the call is pending; it is
\* answered in the step in which the call settles and not otherwise, with
\* 200 and success true only if the call succeeded and with 503, 404 or 500
\* if it failed; and once answered, neither its response nor its calls change.
C19_OneCallOneAnswer ==
  [][ \A i \in Conns :
        LET r == reqs[i]
            q == reqs'[i] IN
          /\ Validated(q) /\ Handled(q) => Len(q.chatCalls) = 1
          /\ Validated(q) /\ q.pc = "awaiting" => q.res.sent = "none"
          /\ Validated(q) /\ Answered(q) /\ ~Answered(r) =>
               /\ r.pc = "awaiting"
               /\ q.outcome \in ChatOutcomes
               /\ q.res.sent = "json"
               /\ q.res.status \in {200, 503, 404, 500}
               /\ q.res.status = 200 =>
                    q.outcome.ok /\ q.res.success = "true"
               /\ ~q.outcome.ok =>
                    q.res.status \in {503, 404, 500} /\ q.res.success = "false"
          /\ Validated(r) /\ Answered(r) =>
               q.res = r.res /\ q.chatCalls = r.chatCalls ]_vars

\* a validated chat was answered 200 after its one call succeeded
C19_Witness ==
  /\ Validated(reqs[1])
  /\ reqs[1].pc = "done"
  /\ reqs[1].res.status = 200
  /\ reqs[1].outcome.ok
  /\ Len(reqs[1].chatCalls) = 1

----------------------------------------------------------------------------
(* The claims about the process *)

\* the step appended one line to the log file: that line
Gained == Len(files'[logFile]) = Len(files[logFile]) + 1

LastLine(f) == f[logFile][Len(f[logFile])]

IsFaultLine(e, text) == e.level = "ERROR" /\ e.message = text

\* C21: the step in which the process stops is the step of an uncaught
\* exception, which appends the ERROR line 'Uncaught Exception', and a step
\* that appends this line stops the process; once stopped the process
\* serves no request and writes no line.  The step of an unhandled
\* rejection appends the ERROR line 'Unhandled Promise Rejection' and leaves
\* the process running, and a running process can take the next step of
\* every request.
C21_ExceptionStopsRejectionDoesNot ==
  /\ [](process.alive => CanGoOn(1))
  /\ [][ /\ process.alive /\ ~process'.alive =>
              /\ Gained
              /\ IsFaultLine(LastLine(files'), "Uncaught Exception")
              /\ reqs' = reqs
         /\ Gained /\ IsFaultLine(LastLine(files'), "Uncaught Exception") =>
              ~process'.alive
         /\ ~process.alive =>
              ~process'.alive /\ reqs' = reqs /\ files' = files
         /\ process'.rejections # process.rejections =>
              /\ process'.rejections = process.rejections + 1
              /\ Gained
              /\ IsFaultLine(LastLine(files'), "Unhandled Promise Rejection")
              /\ process'.alive
              /\ reqs' = reqs ]_vars

\* a rejection was logged, a request that arrived later was served to its
\* end, and then an uncaught exception was logged and stopped the process
C21_Witness ==
  /\ ~process.alive
  /\ process.rejections = 1
  /\ reqs[1].pc = "done"
  /\ IsFaultLine(LastLine(files), "Uncaught Exception")
  /\ \E a \in 1..Len(files[logFile]) :
       /\ IsFaultLine(files[logFile][a], "Unhandled Promise Rejection")
       /\ \A b \in 1..Len(files[logFile]) :
            files[logFile][b].conn = 1 => a < b

----------------------------------------------------------------------------
(* The turn list of the chat UI *)

\* C22: in every state of the chat UI each assistant turn of the turn list
\* comes directly after a user turn; and a step other than Clear keeps the
\* turns the list holds, in place and unchanged, and only appends.
C22_TurnsAlternateAndGrow ==
  /\ [](\A k \in 1..Len(messages) :
          messages[k].role = "assistant" =>
            k > 1 /\ messages[k - 1].role = "user")
  /\ [][ event'.name # "clear" =>
           /\ Len(messages') >= Len(messages)
           /\ SubSeq(messages', 1, Len(messages)) = messages ]_vars

\* two sends were answered: user, assistant, user, assistant
C22_Witness ==
  /\ Len(messages) = 4
  /\ messages[1].role = "user"
  /\ messages[2].role = "assistant"
  /\ messages[3].role = "user"
  /\ messages[4].role = "assistant"


====
